---- MODULE Spec2Model ----
(***************************************************************************)
(* drake::systems::VectorBase<T> (systems/framework/vector_base.h).        *)
(*                                                                         *)
(* A vector object is a finite sequence of scalars held in a heap of       *)
(* objects, so that an operand may be the very object the call is made on. *)
(* Distinct objects share no storage: backing storage is the concrete       *)
(* type's concern, not this class's.                                       *)
(* Scalars are exact integers.  Indices are zero-based as in the source;   *)
(* element i of an object is position i + 1 of its sequence.               *)
(***************************************************************************)
EXTENDS Integers, Sequences, FiniteSets, TLC

\* Largest size() of a vector object and largest rows() of an Eigen vector.
MaxLen == 2
\* Longest initializer list handed to the multi-operand PlusEqScaled.
MaxOperands == 3
\* Longest sequence of calls explored by SpecSeq.
MaxOps == 2

Objs == {"a", "b"}
Vals == {1, 2}
Scales == {-1, 0, 2}
ListScales == {-1, 2}

Sizes == 0 .. MaxLen
Vectors(S) == UNION {[1 .. n -> S] : n \in Sizes}
Zeros(n) == [i \in 1 .. n |-> 0]
Ones(n) == [i \in 1 .. n |-> 1]

VARIABLES
    heap,     \* object -> its elements
    vec,      \* the Eigen vector handed to the last call, as the call left it
    lower,    \* the caller's lower-bound vector (GetElementBounds)
    upper,    \* the caller's upper-bound vector (GetElementBounds)
    os,       \* what the last call wrote to its output stream
    ret,      \* what the last call returned
    err,      \* the exception the last call ended in, or NoErr
    trace,    \* the size checks and element accesses of the last PlusEqScaled
    call,     \* the last call: operation and arguments
    pre,      \* the heap as it was when the last call began
    size0,    \* object -> its size() after construction
    nops,     \* number of calls made
    budget    \* number of calls the caller makes

vars == <<heap, vec, lower, upper, os, ret, err, trace, call, pre, size0, nops, budget>>

----------------------------------------------------------------------------
(* Exceptions.                                                             *)

NoErr == [type |-> "none", what |-> ""]
\* DRAKE_THROW_UNLESS(condition): std::runtime_error naming the condition.
ThrowUnless(condition) == [type |-> "runtime_error", what |-> condition]
OutOfRange(what) == [type |-> "out_of_range", what |-> what]

----------------------------------------------------------------------------
(* Values handed between caller and callee.                                *)

Void == [kind |-> "void", ref |-> "", vec |-> <<>>]
Ref(self) == [kind |-> "ref", ref |-> self, vec |-> <<>>]
Vec(v) == [kind |-> "vec", ref |-> "", vec |-> v]

\* EigenPtr<VectorX<T>>: null, or pointing at the caller's vector v.
NullPtr == [null |-> TRUE, vec |-> <<>>]
PtrTo(v) == [null |-> FALSE, vec |-> v]

\* The outcome of a call: the heap and the Eigen argument as the call left
\* them, the stream output, the returned value, the exception, the accesses.
Ok(h) == [heap |-> h, vec |-> <<>>, os |-> <<>>, ret |-> Void, err |-> NoErr, trace |-> <<>>]
Fail(h, e) == [heap |-> h, vec |-> <<>>, os |-> <<>>, ret |-> Void, err |-> e, trace |-> <<>>]

Event(ev, k, obj, index) == [ev |-> ev, k |-> k, obj |-> obj, index |-> index]

----------------------------------------------------------------------------
(* The primitives every concrete vector provides.                          *)

size(h, self) == Len(h[self])

InRange(h, self, index) == index >= 0 /\ index < size(h, self)

GetAtIndex(h, self, index) == h[self][index + 1]

\* GetAtIndex(index) = value
SetAtIndex(h, self, index, value) == [h EXCEPT ![self][index + 1] = value]

\* SetAtIndex called by the user: the element access throws when index >= size().
SetAtIndexChecked(h, self, index, value) ==
    IF InRange(h, self, index)
    THEN Ok(SetAtIndex(h, self, index, value))
    ELSE Fail(h, ThrowUnless("index < size()"))

----------------------------------------------------------------------------
(* Bulk operations.                                                        *)

\* Mutant: the loop stops one element early.
RECURSIVE SetFromLoop_SkipLast(_, _, _, _)
SetFromLoop_SkipLast(h, self, value, i) ==
    IF i + 1 < size(h, value)
    THEN SetFromLoop_SkipLast(SetAtIndex(h, self, i, GetAtIndex(h, value, i)), self, value, i + 1)
    ELSE h

RECURSIVE SetFromLoop(_, _, _, _)
SetFromLoop(h, self, value, i) ==
    IF i < size(h, value)
    THEN SetFromLoop(SetAtIndex(h, self, i, GetAtIndex(h, value, i)), self, value, i + 1)
    ELSE h

\* Mutant: copies the elements both vectors have, and only then compares sizes.
RECURSIVE CopyPrefix(_, _, _, _, _)
CopyPrefix(h, self, value, i, n) ==
    IF i < n
    THEN CopyPrefix(SetAtIndex(h, self, i, GetAtIndex(h, value, i)), self, value, i + 1, n)
    ELSE h

SetFrom_CopyThenCheck(h, self, value) ==
    LET n == IF size(h, value) < size(h, self) THEN size(h, value) ELSE size(h, self)
        copied == CopyPrefix(h, self, value, 0, n)
    IN  IF size(h, value) # size(h, self)
        THEN Fail(copied, ThrowUnless("value.size() == size()"))
        ELSE Ok(copied)

\* Mutant: takes over the value's storage, whatever its size.
SetFrom_Assign(h, self, value) == Ok([h EXCEPT ![self] = h[value]])

SetFrom(h, self, value) ==
    IF size(h, value) # size(h, self)
    THEN Fail(h, ThrowUnless("value.size() == size()"))
    ELSE Ok(SetFromLoop(h, self, value, 0))

RECURSIVE SetFromVectorLoop(_, _, _, _)
SetFromVectorLoop(h, self, value, i) ==
    IF i < Len(value)
    THEN SetFromVectorLoop(SetAtIndex(h, self, i, value[i + 1]), self, value, i + 1)
    ELSE h

SetFromVector(h, self, value) ==
    IF Len(value) # size(h, self)
    THEN [Fail(h, ThrowUnless("value.rows() == size()")) EXCEPT !.vec = value]
    ELSE [Ok(SetFromVectorLoop(h, self, value, 0)) EXCEPT !.vec = value]

RECURSIVE SetZeroLoop(_, _, _, _)
SetZeroLoop(h, self, i, sz) ==
    IF i < sz
    THEN SetZeroLoop(SetAtIndex(h, self, i, 0), self, i + 1, sz)
    ELSE h

SetZero(h, self) == Ok(SetZeroLoop(h, self, 0, size(h, self)))

\* Mutant: the loop stops one element early.
RECURSIVE CopyLoop_SkipLast(_, _, _, _)
CopyLoop_SkipLast(h, self, out, i) ==
    IF i + 1 < size(h, self)
    THEN CopyLoop_SkipLast(h, self, [out EXCEPT ![i + 1] = GetAtIndex(h, self, i)], i + 1)
    ELSE out

\* for (i = 0; i < size(); ++i) out[i] = GetAtIndex(i);
RECURSIVE CopyLoop(_, _, _, _)
CopyLoop(h, self, out, i) ==
    IF i < size(h, self)
    THEN CopyLoop(h, self, [out EXCEPT ![i + 1] = GetAtIndex(h, self, i)], i + 1)
    ELSE out

\* VectorX<T> vec(size()): every coefficient is assigned before it is read,
\* so the coefficients it starts with are immaterial.
CopyToVector(h, self) ==
    [Ok(h) EXCEPT !.ret = Vec(CopyLoop(h, self, Zeros(size(h, self)), 0))]

CopyToPreSizedVector(h, self, ptr) ==
    IF ptr.null
    THEN Fail(h, ThrowUnless("vec != nullptr"))
    ELSE IF Len(ptr.vec) # size(h, self)
    THEN [Fail(h, ThrowUnless("vec->rows() == size()")) EXCEPT !.vec = ptr.vec]
    ELSE [Ok(h) EXCEPT !.vec = CopyLoop(h, self, ptr.vec, 0)]

\* Mutant: = in place of +=.
RECURSIVE ScaleAndAddLoop_Assign(_, _, _, _, _)
ScaleAndAddLoop_Assign(h, self, scale, out, i) ==
    IF i < size(h, self)
    THEN ScaleAndAddLoop_Assign(h, self, scale,
                                [out EXCEPT ![i + 1] = scale * GetAtIndex(h, self, i)],
                                i + 1)
    ELSE out

RECURSIVE ScaleAndAddLoop(_, _, _, _, _)
ScaleAndAddLoop(h, self, scale, out, i) ==
    IF i < size(h, self)
    THEN ScaleAndAddLoop(h, self, scale,
                         [out EXCEPT ![i + 1] = out[i + 1] + scale * GetAtIndex(h, self, i)],
                         i + 1)
    ELSE out

ScaleAndAddToVector(h, self, scale, ptr) ==
    IF ptr.null
    THEN Fail(h, ThrowUnless("vec != nullptr"))
    ELSE IF Len(ptr.vec) # size(h, self)
    THEN [Fail(h, OutOfRange("Addends must be the same size.")) EXCEPT !.vec = ptr.vec]
    ELSE [Ok(h) EXCEPT !.vec = ScaleAndAddLoop(h, self, scale, ptr.vec, 0)]

----------------------------------------------------------------------------
(* Scaled accumulation.  An operand is a pair (first, second): the scale   *)
(* and a reference to a vector object.                                     *)

Operand(scale, rhs) == [first |-> scale, second |-> rhs]

\* Mutant: = in place of +=, so that the last operand alone counts.
RECURSIVE InnerLoop_Overwrite(_, _, _, _, _)
InnerLoop_Overwrite(h, rhs_scale, i, k, acc) ==
    IF k <= Len(rhs_scale)
    THEN InnerLoop_Overwrite(h, rhs_scale, i, k + 1,
            [value |-> GetAtIndex(h, rhs_scale[k].second, i) * rhs_scale[k].first,
             trace |-> Append(acc.trace, Event("operand", k, rhs_scale[k].second, i))])
    ELSE acc

\* for (operand : rhs_scale) value += operand.second.GetAtIndex(i) * operand.first;
\* acc is the accumulator and the accesses made so far.
RECURSIVE InnerLoop(_, _, _, _, _)
InnerLoop(h, rhs_scale, i, k, acc) ==
    IF k <= Len(rhs_scale)
    THEN InnerLoop(h, rhs_scale, i, k + 1,
            [value |-> acc.value + GetAtIndex(h, rhs_scale[k].second, i) * rhs_scale[k].first,
             trace |-> Append(acc.trace, Event("operand", k, rhs_scale[k].second, i))])
    ELSE acc

\* Mutant: SetAtIndex(i, value), the element's own value dropped.
LoopBody_Overwrite(st, self, rhs_scale, i) ==
    LET acc == InnerLoop(st.heap, rhs_scale, i, 1, [value |-> 0, trace |-> st.trace])
    IN  [heap |-> SetAtIndex(st.heap, self, i, acc.value),
         trace |-> acc.trace \o <<Event("read", 0, self, i), Event("write", 0, self, i)>>]

\* One pass of the outer loop: T value(0); the inner loop;
\* SetAtIndex(i, GetAtIndex(i) + value).
LoopBody(st, self, rhs_scale, i) ==
    LET acc == InnerLoop(st.heap, rhs_scale, i, 1, [value |-> 0, trace |-> st.trace])
    IN  [heap |-> SetAtIndex(st.heap, self, i, GetAtIndex(st.heap, self, i) + acc.value),
         trace |-> acc.trace \o <<Event("read", 0, self, i), Event("write", 0, self, i)>>]

RECURSIVE OuterLoop(_, _, _, _, _)

\* Mutant: one pass over the vector per operand.
RECURSIVE OperandMajorLoop(_, _, _, _)
OperandMajorLoop(st, self, rhs_scale, k) ==
    IF k <= Len(rhs_scale)
    THEN OperandMajorLoop(OuterLoop(st, self, <<rhs_scale[k]>>, 0, size(st.heap, self)),
                          self, rhs_scale, k + 1)
    ELSE st

DoPlusEqScaled_OperandMajor(st, self, rhs_scale) == OperandMajorLoop(st, self, rhs_scale, 1)

OuterLoop(st, self, rhs_scale, i, sz) ==
    IF i < sz
    THEN OuterLoop(LoopBody(st, self, rhs_scale, i), self, rhs_scale, i + 1, sz)
    ELSE st

\* st is the heap and the accesses made so far; so is the result.
DoPlusEqScaled(st, self, rhs_scale) ==
    OuterLoop(st, self, rhs_scale, 0, size(st.heap, self))

\* The validation loop: the position of the first operand whose size differs
\* from size(), or 0 when there is none, checking operands k, k + 1, ...
RECURSIVE FirstMismatch(_, _, _, _)
FirstMismatch(h, self, rhs_scale, k) ==
    IF k > Len(rhs_scale) THEN 0
    ELSE IF size(h, rhs_scale[k].second) # size(h, self) THEN k
    ELSE FirstMismatch(h, self, rhs_scale, k + 1)

SizeChecks(rhs_scale, n) == [k \in 1 .. n |-> Event("size", k, rhs_scale[k].second, 0)]

\* Mutant: each operand is checked and at once added in, operand by operand.
RECURSIVE InterleavedLoop(_, _, _, _)
InterleavedLoop(st, self, rhs_scale, k) ==
    IF k > Len(rhs_scale)
    THEN [Ok(st.heap) EXCEPT !.trace = st.trace, !.ret = Ref(self)]
    ELSE LET checked == Append(st.trace, Event("size", k, rhs_scale[k].second, 0))
         IN  IF size(st.heap, rhs_scale[k].second) # size(st.heap, self)
             THEN [Fail(st.heap, OutOfRange("Addends must be the same size."))
                      EXCEPT !.trace = checked]
             ELSE InterleavedLoop(DoPlusEqScaled([heap |-> st.heap, trace |-> checked],
                                                 self, <<rhs_scale[k]>>),
                                  self, rhs_scale, k + 1)

PlusEqScaledList_Interleaved(h, self, rhs_scale) ==
    InterleavedLoop([heap |-> h, trace |-> <<>>], self, rhs_scale, 1)

\* PlusEqScaled(initializer_list<pair<T, const VectorBase<T>&>>)
PlusEqScaledList(h, self, rhs_scale) ==
    LET bad == FirstMismatch(h, self, rhs_scale, 1)
    IN  IF bad # 0
        THEN [Fail(h, OutOfRange("Addends must be the same size."))
                 EXCEPT !.trace = SizeChecks(rhs_scale, bad)]
        ELSE LET st == DoPlusEqScaled([heap |-> h,
                                       trace |-> SizeChecks(rhs_scale, Len(rhs_scale))],
                                      self, rhs_scale)
             IN  [Ok(st.heap) EXCEPT !.trace = st.trace, !.ret = Ref(self)]

\* PlusEqScaled(scale, rhs)
PlusEqScaled(h, self, scale, rhs) == PlusEqScaledList(h, self, <<Operand(scale, rhs)>>)

OperatorPlusEq(h, self, rhs) == PlusEqScaled(h, self, 1, rhs)

\* Mutant: the sign of the scale lost.
OperatorMinusEq_Plus(h, self, rhs) == PlusEqScaled(h, self, 1, rhs)

OperatorMinusEq(h, self, rhs) == PlusEqScaled(h, self, -1, rhs)

----------------------------------------------------------------------------
(* Streaming: "[" then the elements separated by ", " then "]".            *)

RECURSIVE StreamLoop(_, _, _, _)
StreamLoop(h, self, out, i) ==
    IF i < size(h, self)
    THEN StreamLoop(h, self,
                    (IF i > 0 THEN Append(out, ", ") ELSE out)
                        \o <<ToString(GetAtIndex(h, self, i))>>,
                    i + 1)
    ELSE out

OperatorStream(h, self) ==
    [Ok(h) EXCEPT !.os = Append(StreamLoop(h, self, <<"[">>, 0), "]")]

----------------------------------------------------------------------------
(* The calls.                                                              *)

NoCall ==
    [op |-> "none", self |-> "", index |-> 0, value |-> 0, other |-> "", scale |-> 0,
     rhs_scale |-> <<>>, ptr |-> NullPtr]

\* Call c with outcome r: the caller sees r, and remembers the heap before.
Do(c, r) ==
    /\ nops < budget
    /\ heap' = r.heap
    /\ vec' = r.vec
    /\ os' = r.os
    /\ ret' = r.ret
    /\ err' = r.err
    /\ trace' = r.trace
    /\ call' = c
    /\ pre' = heap
    /\ nops' = nops + 1
    /\ UNCHANGED <<lower, upper, size0, budget>>

CallSetAtIndex(self, index, value) ==
    Do([NoCall EXCEPT !.op = "SetAtIndex", !.self = self, !.index = index, !.value = value],
       SetAtIndexChecked(heap, self, index, value))

CallSetFrom(self, value) ==
    Do([NoCall EXCEPT !.op = "SetFrom", !.self = self, !.other = value],
       SetFrom(heap, self, value))

CallSetFromVector(self, value) ==
    Do([NoCall EXCEPT !.op = "SetFromVector", !.self = self, !.ptr = PtrTo(value)],
       SetFromVector(heap, self, value))

CallSetZero(self) ==
    Do([NoCall EXCEPT !.op = "SetZero", !.self = self], SetZero(heap, self))

CallCopyToVector(self) ==
    Do([NoCall EXCEPT !.op = "CopyToVector", !.self = self], CopyToVector(heap, self))

CallCopyToPreSizedVector(self, ptr) ==
    Do([NoCall EXCEPT !.op = "CopyToPreSizedVector", !.self = self, !.ptr = ptr],
       CopyToPreSizedVector(heap, self, ptr))

CallScaleAndAddToVector(self, scale, ptr) ==
    Do([NoCall EXCEPT !.op = "ScaleAndAddToVector", !.self = self, !.scale = scale,
                      !.ptr = ptr],
       ScaleAndAddToVector(heap, self, scale, ptr))

CallPlusEqScaled(self, scale, rhs) ==
    Do([NoCall EXCEPT !.op = "PlusEqScaled", !.self = self, !.scale = scale, !.other = rhs,
                      !.rhs_scale = <<Operand(scale, rhs)>>],
       PlusEqScaled(heap, self, scale, rhs))

CallPlusEqScaledList(self, rhs_scale) ==
    Do([NoCall EXCEPT !.op = "PlusEqScaledList", !.self = self, !.rhs_scale = rhs_scale],
       PlusEqScaledList(heap, self, rhs_scale))

CallOperatorPlusEq(self, rhs) ==
    Do([NoCall EXCEPT !.op = "operator+=", !.self = self, !.other = rhs,
                      !.rhs_scale = <<Operand(1, rhs)>>],
       OperatorPlusEq(heap, self, rhs))

CallOperatorMinusEq(self, rhs) ==
    Do([NoCall EXCEPT !.op = "operator-=", !.self = self, !.other = rhs,
                      !.rhs_scale = <<Operand(-1, rhs)>>],
       OperatorMinusEq(heap, self, rhs))

CallOperatorStream(self) ==
    Do([NoCall EXCEPT !.op = "operator<<", !.self = self], OperatorStream(heap, self))

\* lower->resize(0); upper->resize(0);  The caller passes two vectors of its
\* own; the method dereferences both pointers without a test.
CallGetElementBounds(self) ==
    /\ nops < budget
    /\ lower' = <<>>
    /\ upper' = <<>>
    /\ vec' = <<>>
    /\ os' = <<>>
    /\ ret' = Void
    /\ err' = NoErr
    /\ trace' = <<>>
    /\ call' = [NoCall EXCEPT !.op = "GetElementBounds", !.self = self]
    /\ pre' = heap
    /\ nops' = nops + 1
    /\ UNCHANGED <<heap, size0, budget>>

----------------------------------------------------------------------------
(* Inputs.                                                                 *)

Indices == 0 .. MaxLen
Ptrs == {NullPtr} \cup {PtrTo(v) : v \in Vectors(Vals)}
Operands == {Operand(s, o) : s \in ListScales, o \in Objs}
\* Lists of up to two operands with every scale, and longer ones, up to
\* MaxOperands operands, with scale 2.
ShortLists == UNION {[1 .. n -> Operands] : n \in 0 .. 2}
LongLists == UNION {[1 .. n -> {Operand(2, o) : o \in Objs}] : n \in 3 .. MaxOperands}
OperandLists == ShortLists \cup LongLists

\* The narrower inputs of the call sequences.
SeqPtrs == {NullPtr} \cup {PtrTo(Ones(n)) : n \in Sizes}
SeqOperandLists == UNION {[1 .. n -> {Operand(2, o) : o \in Objs}] : n \in 0 .. 2}

InitCommon ==
    /\ vec = <<>>
    /\ lower = Zeros(MaxLen)
    /\ upper = Zeros(MaxLen)
    /\ os = <<>>
    /\ ret = Void
    /\ err = NoErr
    /\ trace = <<>>
    /\ call = NoCall
    /\ pre = heap
    /\ size0 = [o \in Objs |-> Len(heap[o])]
    /\ nops = 0

\* One call on any vectors.
Init ==
    /\ heap \in [Objs -> Vectors(Vals)]
    /\ budget = 1
    /\ InitCommon

Next ==
    \/ \E self \in Objs, index \in Indices, value \in Vals : CallSetAtIndex(self, index, value)
    \/ \E self \in Objs, value \in Objs : CallSetFrom(self, value)
    \/ \E self \in Objs, value \in Vectors(Vals) : CallSetFromVector(self, value)
    \/ \E self \in Objs : CallSetZero(self)
    \/ \E self \in Objs : CallCopyToVector(self)
    \/ \E self \in Objs, ptr \in Ptrs : CallCopyToPreSizedVector(self, ptr)
    \/ \E self \in Objs, scale \in Scales, ptr \in Ptrs : CallScaleAndAddToVector(self, scale, ptr)
    \/ \E self \in Objs, scale \in Scales, rhs \in Objs : CallPlusEqScaled(self, scale, rhs)
    \/ \E self \in Objs, rhs_scale \in OperandLists : CallPlusEqScaledList(self, rhs_scale)
    \/ \E self \in Objs, rhs \in Objs : CallOperatorPlusEq(self, rhs)
    \/ \E self \in Objs, rhs \in Objs : CallOperatorMinusEq(self, rhs)
    \/ \E self \in Objs : CallGetElementBounds(self)
    \/ \E self \in Objs : CallOperatorStream(self)

Spec == Init /\ [][Next]_vars

\* Up to MaxOps calls, one after the other, on vectors of every size.
InitSeq ==
    /\ heap \in [Objs -> {Ones(n) : n \in Sizes}]
    /\ budget = MaxOps
    /\ InitCommon

NextSeq ==
    \/ \E self \in Objs, index \in Indices : CallSetAtIndex(self, index, 2)
    \/ \E self \in Objs, value \in Objs : CallSetFrom(self, value)
    \/ \E self \in Objs, n \in Sizes : CallSetFromVector(self, Ones(n))
    \/ \E self \in Objs : CallSetZero(self)
    \/ \E self \in Objs : CallCopyToVector(self)
    \/ \E self \in Objs, ptr \in SeqPtrs : CallCopyToPreSizedVector(self, ptr)
    \/ \E self \in Objs, ptr \in SeqPtrs : CallScaleAndAddToVector(self, 2, ptr)
    \/ \E self \in Objs, rhs \in Objs : CallPlusEqScaled(self, 2, rhs)
    \/ \E self \in Objs, rhs_scale \in SeqOperandLists : CallPlusEqScaledList(self, rhs_scale)
    \/ \E self \in Objs, rhs \in Objs : CallOperatorPlusEq(self, rhs)
    \/ \E self \in Objs, rhs \in Objs : CallOperatorMinusEq(self, rhs)
    \/ \E self \in Objs : CallGetElementBounds(self)
    \/ \E self \in Objs : CallOperatorStream(self)

SpecSeq == InitSeq /\ [][NextSeq]_vars

----------------------------------------------------------------------------
(* What the last call was, for the properties below.                       *)

\* The kinds of error callers tell apart, by the condition that failed: a
\* required output location is null; an operand's dimension disagrees with
\* size().
InvalidArgument(e) == e.type = "runtime_error" /\ e.what = "vec != nullptr"
SizeMismatch(e) ==
    \/ e.type = "out_of_range" /\ e.what = "Addends must be the same size."
    \/ e.type = "runtime_error"
       /\ e.what \in {"value.size() == size()", "value.rows() == size()",
                      "vec->rows() == size()"}

PlusFamily == {"PlusEqScaled", "PlusEqScaledList", "operator+=", "operator-="}
Succeeded == err = NoErr
NumOperands == Len(call.rhs_scale)
\* Operand k's size equals size().
Fits(k) == Len(pre[call.rhs_scale[k].second]) = Len(pre[call.self])
AllFit == \A k \in 1 .. NumOperands : Fits(k)
\* The sizes of the target and of the other vector agree.
SameSize == Len(pre[call.other]) = Len(pre[call.self])
\* The elements of the target changed by the call.
Touched == heap[call.self] # pre[call.self]

\* sum over operands k .. of scale_k * vector_k[i], on the heap h
RECURSIVE WeightedSum(_, _, _, _)
WeightedSum(h, rhs_scale, i, k) ==
    IF k > Len(rhs_scale) THEN 0
    ELSE rhs_scale[k].first * h[rhs_scale[k].second][i + 1]
         + WeightedSum(h, rhs_scale, i, k + 1)

----------------------------------------------------------------------------
\* C1: the multi-operand PlusEqScaled with an operand of the wrong size at any
\* position ends in the out_of_range size-mismatch error with every element of
\* every vector as before; and in no call is an element written before all
\* operands have been size-checked.
C1_AllOrNothing ==
    call.op = "PlusEqScaledList" =>
        /\ ~AllFit =>
              /\ err = OutOfRange("Addends must be the same size.")
              /\ SizeMismatch(err)
              /\ heap = pre
              /\ \A j \in 1 .. Len(trace) : trace[j].ev = "size"
        /\ \A j \in 1 .. Len(trace) :
              trace[j].ev = "write" =>
                  /\ j > NumOperands
                  /\ \A k \in 1 .. NumOperands :
                        trace[k] = Event("size", k, call.rhs_scale[k].second, 0)

\* Three operands, the middle one of the wrong size, the target non-empty.
C1_Witness ==
    /\ call.op = "PlusEqScaledList"
    /\ NumOperands = 3
    /\ Fits(1) /\ ~Fits(2) /\ Fits(3)
    /\ Len(pre[call.self]) > 0
    /\ err.type = "out_of_range"

\* C2: A.PlusEqScaled(s, B) with B of A's size completes without error, leaves
\* A[i] = A_old[i] + s * B_old[i] for every i, changes neither A's size nor
\* B (nor any vector other than A), and returns A.
C2_PlusEqScaled ==
    (call.op = "PlusEqScaled" /\ SameSize) =>
        /\ Succeeded
        /\ Len(heap[call.self]) = Len(pre[call.self])
        /\ \A i \in 1 .. Len(pre[call.self]) :
              heap[call.self][i] = pre[call.self][i] + call.scale * pre[call.other][i]
        /\ call.other # call.self => heap[call.other] = pre[call.other]
        /\ \A o \in Objs \ {call.self} : heap[o] = pre[o]
        /\ ret = Ref(call.self)

\* Two distinct non-empty vectors and a scale that changes A.
C2_Witness ==
    /\ call.op = "PlusEqScaled"
    /\ call.other # call.self
    /\ SameSize
    /\ Len(pre[call.self]) = MaxLen
    /\ call.scale = 2
    /\ Succeeded
    /\ Touched

\* The final A of A.PlusEqScaled(s1, B1) followed by A.PlusEqScaled(s2, B2).
Sequential(h, self, rhs_scale) ==
    PlusEqScaled(PlusEqScaled(h, self, rhs_scale[1].first, rhs_scale[1].second).heap,
                 self, rhs_scale[2].first, rhs_scale[2].second).heap[self]

\* C3 as stated: for operands B1, B2 of A's size, whichever objects they are,
\* A.PlusEqScaled([(s1,B1),(s2,B2)]) leaves the A that the two single-operand
\* calls in sequence leave.
C3_AnyOperands ==
    (call.op = "PlusEqScaledList" /\ NumOperands = 2 /\ AllFit) =>
        heap[call.self] = Sequential(pre, call.self, call.rhs_scale)

\* C3 amended: the same, provided the second operand B2 is not A itself.
C3_SecondNotSelf ==
    (call.op = "PlusEqScaledList" /\ NumOperands = 2 /\ AllFit
        /\ call.rhs_scale[2].second # call.self) =>
        /\ Succeeded
        /\ heap[call.self] = Sequential(pre, call.self, call.rhs_scale)

\* Two operands on a non-empty A, the first A itself, the second another vector.
C3_Witness ==
    /\ call.op = "PlusEqScaledList"
    /\ NumOperands = 2
    /\ AllFit
    /\ call.rhs_scale[1].second = call.self
    /\ call.rhs_scale[2].second # call.self
    /\ Len(pre[call.self]) = MaxLen
    /\ Succeeded
    /\ Touched

\* C4: SetFrom, SetFromVector and the single-operand PlusEqScaled, given a
\* source of the wrong size, end in a size-mismatch error and leave every
\* element of the target (and of every other vector) as before.
C4_MismatchLeavesTarget ==
    /\ (call.op \in {"SetFrom", "PlusEqScaled"} /\ ~SameSize) =>
          ~Succeeded /\ SizeMismatch(err) /\ heap = pre
    /\ (call.op = "SetFromVector" /\ Len(call.ptr.vec) # Len(pre[call.self])) =>
          ~Succeeded /\ SizeMismatch(err) /\ heap = pre

\* SetFrom with a non-empty source of another size into a non-empty target.
C4_Witness ==
    /\ call.op = "SetFrom"
    /\ ~SameSize
    /\ Len(pre[call.self]) > 0
    /\ Len(pre[call.other]) > 0
    /\ pre[call.self][1] # pre[call.other][1]
    /\ ~Succeeded

\* C5: CopyToPreSizedVector(out) raises the invalid-argument error when out is
\* null, whatever size() is, and the size-mismatch error when out has another
\* row count, in both cases with every vector and out as before; with
\* out.rows() = size() it succeeds with out[i] = get(i) for every i and every
\* vector as before.
C5_CopyToPreSized ==
    call.op = "CopyToPreSizedVector" =>
        /\ heap = pre
        /\ call.ptr.null => InvalidArgument(err) /\ ~SizeMismatch(err)
        /\ (~call.ptr.null /\ Len(call.ptr.vec) # Len(pre[call.self])) =>
              SizeMismatch(err) /\ ~InvalidArgument(err) /\ vec = call.ptr.vec
        /\ (~call.ptr.null /\ Len(call.ptr.vec) = Len(pre[call.self])) =>
              /\ Succeeded
              /\ Len(vec) = Len(pre[call.self])
              /\ \A i \in 1 .. Len(vec) : vec[i] = pre[call.self][i]

\* A copy into a vector of the right size that held other coefficients.
C5_Witness ==
    /\ call.op = "CopyToPreSizedVector"
    /\ ~call.ptr.null
    /\ Len(call.ptr.vec) = MaxLen
    /\ Succeeded
    /\ \A i \in 1 .. MaxLen : call.ptr.vec[i] # pre[call.self][i]
    /\ vec = pre[call.self]

\* C6: ScaleAndAddToVector(scale, vec) with vec of size() rows leaves
\* vec[i] = vec_old[i] + scale * get(i) for every i; with vec null it raises
\* the invalid-argument error and with another row count the out_of_range
\* size-mismatch error, leaving vec as it was; in every case no vector changes.
C6_ScaleAndAdd ==
    call.op = "ScaleAndAddToVector" =>
        /\ heap = pre
        /\ call.ptr.null => InvalidArgument(err)
        /\ (~call.ptr.null /\ Len(call.ptr.vec) # Len(pre[call.self])) =>
              /\ err.type = "out_of_range"
              /\ SizeMismatch(err)
              /\ vec = call.ptr.vec
        /\ (~call.ptr.null /\ Len(call.ptr.vec) = Len(pre[call.self])) =>
              /\ Succeeded
              /\ Len(vec) = Len(call.ptr.vec)
              /\ \A i \in 1 .. Len(vec) :
                    vec[i] = call.ptr.vec[i] + call.scale * pre[call.self][i]

\* A scaled addition into a vector of the right size.
C6_Witness ==
    /\ call.op = "ScaleAndAddToVector"
    /\ ~call.ptr.null
    /\ Len(call.ptr.vec) = MaxLen
    /\ Len(pre[call.self]) = MaxLen
    /\ call.scale = 2
    /\ Succeeded
    /\ vec # call.ptr.vec

\* C7: A.SetFrom(B) with B of A's size (size 0 too) succeeds, and then
\* A.CopyToVector() equals B.CopyToVector(), B being as before;
\* A.SetFromVector(d) with d of size() rows succeeds, and then
\* A.CopyToVector() returns d.
C7_RoundTrip ==
    /\ (call.op = "SetFrom" /\ SameSize) =>
          /\ Succeeded
          /\ CopyToVector(heap, call.self).ret = CopyToVector(heap, call.other).ret
          /\ CopyToVector(heap, call.self).ret = Vec(pre[call.other])
          /\ heap[call.other] = pre[call.other]
    /\ (call.op = "SetFromVector" /\ Len(call.ptr.vec) = Len(pre[call.self])) =>
          /\ Succeeded
          /\ CopyToVector(heap, call.self).ret = Vec(call.ptr.vec)
          /\ vec = call.ptr.vec

\* SetFrom between two distinct vectors of the largest size that differed in
\* every element.
C7_Witness ==
    /\ call.op = "SetFrom"
    /\ call.other # call.self
    /\ Len(pre[call.self]) = MaxLen
    /\ SameSize
    /\ \A i \in 1 .. MaxLen : pre[call.self][i] # pre[call.other][i]
    /\ Succeeded
    /\ heap[call.self] = pre[call.other]

\* C8: after any sequence of calls, failed or not, every vector has the size it
\* was constructed with, and a call that took other vectors as operands has
\* either found each of them of size() elements or failed.
C8_SizeInvariant ==
    /\ \A o \in Objs : Len(heap[o]) = size0[o]
    /\ \A o \in Objs : Len(pre[o]) = size0[o]
    /\ (call.op = "SetFrom" /\ Succeeded) => SameSize
    /\ (call.op \in PlusFamily /\ Succeeded) => AllFit
    /\ (call.op = "SetFrom" /\ ~SameSize) => ~Succeeded
    /\ (call.op \in PlusFamily /\ ~AllFit) => ~Succeeded

\* A second call that changed a vector changed by the first call too.
C8_Witness ==
    /\ nops = 2
    /\ call.op \in PlusFamily
    /\ Succeeded
    /\ size0[call.self] = MaxLen
    /\ Touched
    /\ pre[call.self] # Ones(MaxLen)

\* The outcome of a call as the caller sees it.
Outcome(r) == <<r.heap, r.err, r.ret>>

\* C9 as stated: A += B and A -= B have the outcomes of A.PlusEqScaled(1, B)
\* and A.PlusEqScaled(-1, B); and for B of A's size, A += B followed by
\* A -= B leaves every element of A as it was at first.
C9_AnyOperand ==
    /\ call.op = "operator+=" =>
          Outcome([heap |-> heap, err |-> err, ret |-> ret])
              = Outcome(PlusEqScaled(pre, call.self, 1, call.other))
    /\ call.op = "operator-=" =>
          Outcome([heap |-> heap, err |-> err, ret |-> ret])
              = Outcome(PlusEqScaled(pre, call.self, -1, call.other))
    /\ (call.op = "operator+=" /\ SameSize) =>
          OperatorMinusEq(heap, call.self, call.other).heap[call.self] = pre[call.self]

\* C9 amended: the same, the restoring of A being claimed only for B that is
\* not A itself.
C9_OtherOperand ==
    /\ call.op = "operator+=" =>
          Outcome([heap |-> heap, err |-> err, ret |-> ret])
              = Outcome(PlusEqScaled(pre, call.self, 1, call.other))
    /\ call.op = "operator-=" =>
          Outcome([heap |-> heap, err |-> err, ret |-> ret])
              = Outcome(PlusEqScaled(pre, call.self, -1, call.other))
    /\ (call.op = "operator+=" /\ SameSize /\ call.other # call.self) =>
          /\ Succeeded
          /\ OperatorMinusEq(heap, call.self, call.other).err = NoErr
          /\ OperatorMinusEq(heap, call.self, call.other).heap = pre

\* A += B on two distinct vectors of the largest size.
C9_Witness ==
    /\ call.op = "operator+="
    /\ call.other # call.self
    /\ SameSize
    /\ Len(pre[call.self]) = MaxLen
    /\ Succeeded
    /\ Touched

\* C10: the accumulation goes through the indices 0 .. N-1 in increasing
\* order; at index i it reads element i of every operand in list order, then
\* reads this[i] once and writes this[i] once, with this[i] plus the sum of the
\* scaled operand elements, and accesses nothing else; an empty list leaves
\* every element as it was.
C10_IndexMajor ==
    (call.op \in PlusFamily /\ Succeeded) =>
        LET n == NumOperands
            sz == Len(pre[call.self])
            at(i, j) == trace[n + i * (n + 2) + j]
        IN  /\ Len(trace) = n + sz * (n + 2)
            /\ \A i \in 0 .. sz - 1 :
                  /\ \A k \in 1 .. n :
                        at(i, k) = Event("operand", k, call.rhs_scale[k].second, i)
                  /\ at(i, n + 1) = Event("read", 0, call.self, i)
                  /\ at(i, n + 2) = Event("write", 0, call.self, i)
                  /\ heap[call.self][i + 1]
                        = pre[call.self][i + 1] + WeightedSum(pre, call.rhs_scale, i, 1)
            /\ \A o \in Objs \ {call.self} : heap[o] = pre[o]
            /\ n = 0 => heap = pre

\* Two operands, two indices.
C10_Witness ==
    /\ call.op = "PlusEqScaledList"
    /\ NumOperands = 2
    /\ call.rhs_scale[1] # call.rhs_scale[2]
    /\ Len(pre[call.self]) = MaxLen
    /\ Succeeded
    /\ Len(trace) = 2 + MaxLen * 4

====
